---------------------------- MODULE Spec2Model ----------------------------
(***************************************************************************)
(* SolarSentinel AI server: the anomaly model object                       *)
(* (models/isolation_forest.py), the HTTP service around it (server.py)    *)
(* and the synthetic data generator (data/generate_training_data.py).      *)
(*                                                                         *)
(* Three specifications share the variables:                               *)
(*   ModelSpec  one IsolationForestModel instance and its methods, called  *)
(*              one after the other;                                       *)
(*   Spec       the server process: import, startup training, then the     *)
(*              handlers, each request on a thread of its own, every read  *)
(*              and every assignment of the shared model a step;           *)
(*   GenSpec    generate_synthetic_data on its arguments, the shuffle one  *)
(*              place a step.                                              *)
(***************************************************************************)
EXTENDS Integers, Sequences, FiniteSets, Bags

VARIABLES
    model,               \* server.py global: "none" (None) or "object"
    estimator,           \* self.model: the wrapped IsolationForest
    is_trained,          \* self.is_trained
    training_samples,    \* self.training_samples
    validation_metrics,  \* self.validation_metrics
    file,                \* content of the joblib file on disk
    pc,                  \* position of the process
    startup,             \* outcome of the startup training block
    train_called,        \* history: train() has been called on the instance
    loaded,              \* history: a load_model() call has succeeded
    traffic,             \* history: a request handler has run
    req,                 \* the call or request answered by the last step
    resp,                \* its outcome or answer
    gen_args,            \* generate_synthetic_data: its arguments
    gen_data,            \* generate_synthetic_data: the readings of its list data
    shuffle,             \* np.random.shuffle: the place it is at
    threads              \* the requests in flight, each with its position

vars == <<model, estimator, is_trained, training_samples, validation_metrics,
          file, pc, startup, train_called, loaded, traffic, req, resp,
          gen_args, gen_data, shuffle, threads>>

(***************************************************************************)
(* Program constants and bounds                                            *)
(***************************************************************************)
MinSamples == 100
StartupSamples == 10000
TestPercent == 20

\* list lengths 0..MaxSmall and MinSamples-1 .. MinSamples+MaxExtra are posted
MaxSmall == 2
MaxExtra == 0
\* generate_synthetic_data is applied to 0..MaxGenSmall and to MaxGen samples,
\* seeds 0..MaxSeed
MaxGenSmall == 20
MaxGen == 34
MaxSeed == 0
\* at most MaxThreads requests are in flight at a time
MaxThreads == 2

(***************************************************************************)
(* Training data.  A list of readings passed to train() is described by    *)
(* its length and by the first step of train() that raises on it, because  *)
(* of its content or of an error inside a library:                         *)
(*   "none"      every entry is a dict of three numbers, nothing raises;   *)
(*   "build"     an entry is no dict or lacks a key: the comprehension     *)
(*               that builds X raises (KeyError / TypeError);              *)
(*   "fit"       a value in the 80% split is not a number, or the library  *)
(*               fails: fit raises;                                        *)
(*   "validate"  a value in the 20% split is not a number (a null), or a   *)
(*               metric function fails: fit succeeds, lines 89-107 raise.  *)
(***************************************************************************)
Defects == {"none", "build", "fit", "validate"}

Lengths == (0..MaxSmall) \cup ((MinSamples - 1)..(MinSamples + MaxExtra))

\* ceil(test_size * n) rows go to the test split, the rest to the train split
TestRows(n) == (n * TestPercent + 99) \div 100
TrainRows(n) == n - TestRows(n)

\* a defect needs an entry to sit in; "fit"/"validate" need a row in that split
DefectFits(n, d) ==
    CASE d = "none" -> TRUE
      [] d = "build" -> n >= 1
      [] d = "fit" -> TrainRows(n) >= 1
      [] d = "validate" -> TrainRows(n) >= 1 /\ TestRows(n) >= 1

Dataset(n, d) == [n |-> n, defect |-> d]
Datasets == {Dataset(n, d) : n \in Lengths, d \in Defects} \cap
            {ds \in [n : Lengths, defect : Defects] : DefectFits(ds.n, ds.defect)}
NoData == Dataset(0, "none")
StartupData == Dataset(StartupSamples, "none")
\* the startup block's train call on the 10,000 generated readings: it
\* returns, or raises at one of the steps
StartupCalls == {Dataset(StartupSamples, d) : d \in Defects}

(***************************************************************************)
(* The model object                                                        *)
(***************************************************************************)
\* IsolationForest(...) as constructed: not fitted
Unfitted == [kind |-> "unfitted", data |-> NoData]
\* the estimator after fit(X_train) on the 80% split of ds (random_state=42:
\* the fit is a function of the data)
Fitted(ds) == [kind |-> "fitted", data |-> ds]
\* an object joblib can load that has neither fit nor predict (a dict, a list)
Foreign == [kind |-> "foreign", data |-> NoData]
\* the estimator as a reader finds it while a fit() call rebuilds it
Torn == [kind |-> "torn", data |-> NoData]

EmptyMetrics == [set |-> FALSE, data |-> NoData, test_samples |-> 0]
Metrics(ds) == [set |-> TRUE, data |-> ds, test_samples |-> TestRows(ds.n)]

\* __init__
NewModel == [estimator |-> Unfitted, is_trained |-> FALSE,
             training_samples |-> 0, validation_metrics |-> EmptyMetrics]

Self == [estimator |-> estimator, is_trained |-> is_trained,
         training_samples |-> training_samples,
         validation_metrics |-> validation_metrics]

NoResult == [labelled_by |-> Unfitted, scored_by |-> Unfitted,
             voltage |-> "missing", temperature |-> "missing",
             power_output |-> "missing"]

\* what a method call did: the object afterwards, the exception it raised
\* ("none": it returned) and, for predict, the result
Outcome(self, raised, result) == [self |-> self, raised |-> raised, result |-> result]

\* a train that clears the trained flag before it refits
train_samples_reset(self, ds) ==
    [self EXCEPT !.training_samples = ds.n, !.is_trained = FALSE]

\* a train that sets the trained flag before it records the sample count
train_samples_flag_first(self, ds) == [self EXCEPT !.is_trained = TRUE]

\* train, line 78: self.training_samples = len(X)
train_samples(self, ds) == [self EXCEPT !.training_samples = ds.n]

\* train, line 85: self.model.fit(X_train)
train_fit_estimator(self, ds) == [self EXCEPT !.estimator = Fitted(ds)]

\* train, line 86: self.is_trained = True
train_fit_flag(self) == [self EXCEPT !.is_trained = TRUE]

\* train, lines 85-86: self.model.fit(X_train); self.is_trained = True
train_fit(self, ds) == train_fit_flag(train_fit_estimator(self, ds))

\* train, lines 109-115: self.validation_metrics = {...}
train_metrics(self, ds) == [self EXCEPT !.validation_metrics = Metrics(ds)]

\* train(training_data): the steps in the order of the code; an exception
\* leaves what the earlier steps assigned and is re-raised (lines 125-127)
train(self, ds) ==
    IF ds.defect = "build"
    THEN Outcome(self, "build", NoResult)
    ELSE LET s1 == train_samples(self, ds) IN
         IF TrainRows(ds.n) = 0
         THEN Outcome(s1, "split", NoResult)
         ELSE IF ds.defect = "fit" \/ self.estimator.kind = "foreign"
         THEN Outcome(s1, "fit", NoResult)
         ELSE LET s2 == train_fit(s1, ds) IN
              IF ds.defect = "validate"
              THEN Outcome(s2, "validate", NoResult)
              ELSE Outcome(train_metrics(s2, ds), "none", NoResult)

(***************************************************************************)
(* A field of a reading, as predict receives it:                           *)
(*   "in"        a number inside the expected range;                       *)
(*   "out"       a finite number outside the expected range;               *)
(*   "overflow"  a number the estimator rejects (Infinity, 1e400);         *)
(*   "str"       not a number (a string, a list, an object);               *)
(*   "missing"   None: the key is absent or null.                          *)
(***************************************************************************)
Numbers == {"in", "out", "overflow"}
FieldValues == Numbers \cup {"str", "missing"}

\* a predict without the trained check
predict_unguarded(self) == FALSE

\* predict, line 145: if not self.is_trained
predict_guard(self) == ~self.is_trained

\* predict, lines 153 and 157: self.model.predict(X) and
\* self.model.score_samples(X) raise on an estimator that is not fitted and
\* on a value that is no finite number
estimator_raises(e, v, t, p) ==
    e.kind # "fitted" \/ {v, t, p} \cap {"in", "out"} # {v, t, p}

\* predict, lines 153-172: the label comes from the estimator read at line
\* 153, the anomaly score and the confidence from the one read at line 157
predict_result(e153, e157, v, t, p) ==
    [labelled_by |-> e153, scored_by |-> e157, voltage |-> v,
     temperature |-> t, power_output |-> p]

\* predict(voltage, temperature, power_output), nothing else running
predict(self, v, t, p) ==
    IF predict_guard(self)
    THEN Outcome(self, "not_trained", NoResult)
    ELSE IF estimator_raises(self.estimator, v, t, p)
    THEN Outcome(self, "predict", NoResult)
    ELSE Outcome(self, "none",
                 predict_result(self.estimator, self.estimator, v, t, p))

\* the fields of a /health or /model/info body that are read from the object
Info(status, trained, samples, metrics) ==
    [status |-> status, is_trained |-> trained, training_samples |-> samples,
     validation_metrics |-> metrics]

\* get_info(): the info dict (its other entries are literals)
get_info(self) == Info("none", self.is_trained, self.training_samples,
                       self.validation_metrics)

Absent == [kind |-> "absent", data |-> NoData]

\* save_model(filepath): [self, file, raised]; io_ok: joblib.dump succeeds
save_model(self, f, io_ok) ==
    IF ~self.is_trained
    THEN [self |-> self, file |-> f, raised |-> "untrained"]
    ELSE IF ~io_ok
    THEN [self |-> self, file |-> f, raised |-> "io"]
    ELSE [self |-> self, file |-> self.estimator, raised |-> "none"]

\* load_model, lines 258-259: self.model = joblib.load(filepath);
\* self.is_trained = True
load_assign(self, f) == [self EXCEPT !.estimator = f, !.is_trained = TRUE]

\* load_model(filepath): joblib.load raises when there is no file
load_model(self, f) ==
    IF f = Absent
    THEN [self |-> self, file |-> f, raised |-> "io"]
    ELSE [self |-> load_assign(self, f), file |-> f, raised |-> "none"]

(***************************************************************************)
(* Calls and their outcomes as recorded in req and resp                    *)
(***************************************************************************)
NoTd == [kind |-> "missing", data |-> NoData]
Req(route, body, v, t, p, td) ==
    [route |-> route, body |-> body, voltage |-> v, temperature |-> t,
     power_output |-> p, training_data |-> td]
NoReq == Req("none", "none", "missing", "missing", "missing", NoTd)

NoInfo == Info("none", FALSE, 0, EmptyMetrics)

\* route: the handler or method; status: the HTTP status (0 for a method
\* call); error: the error of the body, or the exception a method raised;
\* message: where the exception reported in the body came from;
\* called: the model method the handler called
Resp(route, status, error, message, called, info, result) ==
    [route |-> route, status |-> status, error |-> error, message |-> message,
     called |-> called, info |-> info, result |-> result]
NoResp == Resp("none", 0, "none", "none", "none", NoInfo, NoResult)

SetSelf(s) ==
    /\ estimator' = s.estimator
    /\ is_trained' = s.is_trained
    /\ training_samples' = s.training_samples
    /\ validation_metrics' = s.validation_metrics

(***************************************************************************)
(* ModelSpec: one instance, its methods called in any order                *)
(***************************************************************************)
NoGen == [num_samples |-> 0, random_seed |-> 0]
\* no shuffle is running
NoShuffle == [i |-> 0]
\* no list
NoList == [open |-> EmptyBag, placed |-> << >>]

ServerIdle ==
    /\ UNCHANGED <<model, pc, startup, traffic, gen_args, gen_data, shuffle, threads>>

InitModel ==
    /\ model = "object"
    /\ estimator = NewModel.estimator
    /\ is_trained = NewModel.is_trained
    /\ training_samples = NewModel.training_samples
    /\ validation_metrics = NewModel.validation_metrics
    /\ file \in {Absent, Fitted(StartupData), Unfitted, Foreign}
    /\ pc = "object"
    /\ startup = "none"
    /\ train_called = FALSE
    /\ loaded = FALSE
    /\ traffic = FALSE
    /\ req = NoReq
    /\ resp = NoResp
    /\ gen_args = NoGen
    /\ gen_data = NoList
    /\ shuffle = NoShuffle
    /\ threads = EmptyBag

CallTrain ==
    \E ds \in Datasets :
        LET o == train(Self, ds) IN
        /\ SetSelf(o.self)
        /\ train_called' = TRUE
        /\ req' = Req("train", "none", "missing", "missing", "missing",
                      [kind |-> "list", data |-> ds])
        /\ resp' = Resp("train", 0, o.raised, "none", "train", NoInfo, NoResult)
        /\ UNCHANGED <<file, loaded>>
        /\ ServerIdle

CallPredict ==
    \E v \in Numbers, t \in Numbers, p \in Numbers :
        LET o == predict(Self, v, t, p) IN
        /\ SetSelf(o.self)
        /\ req' = Req("predict", "none", v, t, p, NoTd)
        /\ resp' = Resp("predict", 0, o.raised, "none", "predict", NoInfo, o.result)
        /\ UNCHANGED <<file, train_called, loaded>>
        /\ ServerIdle

CallGetInfo ==
    /\ req' = Req("get_info", "none", "missing", "missing", "missing", NoTd)
    /\ resp' = Resp("get_info", 0, "none", "none", "get_info", get_info(Self), NoResult)
    /\ UNCHANGED <<estimator, is_trained, training_samples, validation_metrics,
                   file, train_called, loaded>>
    /\ ServerIdle

CallSaveModel ==
    \E io_ok \in BOOLEAN :
        LET o == save_model(Self, file, io_ok) IN
        /\ SetSelf(o.self)
        /\ file' = o.file
        /\ req' = Req("save_model", "none", "missing", "missing", "missing", NoTd)
        /\ resp' = Resp("save_model", 0, o.raised, "none", "save_model", NoInfo, NoResult)
        /\ UNCHANGED <<train_called, loaded>>
        /\ ServerIdle

CallLoadModel ==
    LET o == load_model(Self, file) IN
    /\ SetSelf(o.self)
    /\ file' = o.file
    /\ loaded' = (loaded \/ o.raised = "none")
    /\ req' = Req("load_model", "none", "missing", "missing", "missing", NoTd)
    /\ resp' = Resp("load_model", 0, o.raised, "none", "load_model", NoInfo, NoResult)
    /\ UNCHANGED train_called
    /\ ServerIdle

NextModel ==
    \/ CallTrain
    \/ CallPredict
    \/ CallGetInfo
    \/ CallSaveModel
    \/ CallLoadModel

ModelSpec == InitModel /\ [][NextModel]_vars

(***************************************************************************)
(* The HTTP service.  A request body, as request.get_json() sees it:       *)
(*   "unparsable"    get_json raises (malformed JSON, wrong content type); *)
(*   "null"          get_json returns None;                                *)
(*   "empty_object"  {};                                                   *)
(*   "falsy_other"   [], 0, "" or false;                                   *)
(*   "nonobject"     a non-empty list or string, a non-zero number, true;  *)
(*   "object"        a non-empty JSON object.                              *)
(* training_data of an object body:                                        *)
(*   "missing"  absent or null;        "falsy"   0, "", {} or false;       *)
(*   "number"   a non-zero number or true (no len());                      *)
(*   "sized"    a string or an object of data.n characters or keys;        *)
(*   "list"     a list of data.n entries (a list too short to be trained   *)
(*              on is posted with well-formed or with malformed entries).  *)
(***************************************************************************)
BodyKinds == {"unparsable", "null", "empty_object", "falsy_other", "nonobject"}

\* the bodies posted to /predict; of the object bodies, those with any
\* voltage beside a temperature and a power_output in range, and those with
\* a temperature or a power_output missing
PredictRequests ==
    {Req("predict", b, "missing", "missing", "missing", NoTd) : b \in BodyKinds}
    \cup {Req("predict", "object", v, "in", "in", NoTd) : v \in FieldValues}
    \cup {Req("predict", "object", v, "missing", "in", NoTd) : v \in {"in", "str"}}
    \cup {Req("predict", "object", "in", "in", "missing", NoTd)}

TrainingData ==
    {[kind |-> k, data |-> NoData] : k \in {"missing", "falsy", "number"}}
    \cup {[kind |-> "sized", data |-> Dataset(n, "build")] :
              n \in {MinSamples - 1, MinSamples}}
    \cup {[kind |-> "list", data |-> ds] :
              ds \in {d \in Datasets : d.n >= MinSamples \/ d.defect \in {"none", "build"}}}

RetrainRequests ==
    {Req("retrain", b, "missing", "missing", "missing", NoTd) : b \in BodyKinds}
    \cup {Req("retrain", "object", "missing", "missing", "missing", td) :
              td \in TrainingData}

HealthRequest == Req("health", "none", "missing", "missing", "missing", NoTd)
InfoRequest == Req("model_info", "none", "missing", "missing", "missing", NoTd)

\* health_check(), line 44: 'ok' if model and model.is_trained else 'error'
health_status(m, self) == IF m = "object" /\ self.is_trained THEN "ok" ELSE "error"

\* health_check(), line 45: model.is_trained if model else False
health_trained(m, self) == IF m = "object" THEN self.is_trained ELSE FALSE

\* health_check(), line 47: model.training_samples if model else 0
health_samples(m, self) == IF m = "object" THEN self.training_samples ELSE 0

\* health_check(): the three entries are evaluated one after the other, on
\* the object as it is at lines 44, 45 and 47
health_check(m, s44, s45, s47) ==
    Resp("health", 200, "none", "none", "none",
         Info(health_status(m, s44), health_trained(m, s45),
              health_samples(m, s47), EmptyMetrics),
         NoResult)

\* predict(), line 84: a field is None
predict_missing(v, t, p) == v = "missing" \/ t = "missing" \/ p = "missing"

\* predict(), lines 90-95: the chained comparisons raise TypeError on a value
\* that is no number; on a number they at most log a warning
range_check_raises(v, t, p) == v = "str" \/ t = "str" \/ p = "str"

\* predict(), line 98: if not model or not model.is_trained
predict_unavailable(m, self) == m # "object" \/ ~self.is_trained

\* predict() of server.py, lines 110-115: the answer to an exception of
\* model.predict
PredictFailed(msg) ==
    Resp("predict", 500, "prediction_failed", msg, "predict", NoInfo, NoResult)

\* predict() of server.py, lines 72-101: the answer given before
\* model.predict is called, NoResp when the call is reached
predict_validate(m, self, rq) ==
    CASE rq.body = "unparsable" ->
             Resp("predict", 500, "prediction_failed", "get_json", "none", NoInfo, NoResult)
      [] rq.body \in {"null", "empty_object", "falsy_other"} ->
             Resp("predict", 400, "no_json", "none", "none", NoInfo, NoResult)
      [] rq.body = "nonobject" ->
             Resp("predict", 500, "prediction_failed", "attribute", "none", NoInfo, NoResult)
      [] OTHER ->
             IF predict_missing(rq.voltage, rq.temperature, rq.power_output)
             THEN Resp("predict", 400, "missing_fields", "none", "none", NoInfo, NoResult)
             ELSE IF range_check_raises(rq.voltage, rq.temperature, rq.power_output)
             THEN Resp("predict", 500, "prediction_failed", "range_check", "none",
                       NoInfo, NoResult)
             ELSE IF predict_unavailable(m, self)
             THEN Resp("predict", 500, "model_not_trained", "none", "none", NoInfo, NoResult)
             ELSE NoResp

\* retrain(), line 138: not training_data or len(training_data) < 100;
\* "raise": len() of a number raises TypeError
retrain_too_few(td) ==
    CASE td.kind \in {"missing", "falsy"} -> "yes"
      [] td.kind = "number" -> "raise"
      [] OTHER -> IF td.data.n = 0 \/ td.data.n < MinSamples THEN "yes" ELSE "no"

\* retrain(), lines 154-159: the answer to an exception
RetrainFailed(msg, called) ==
    Resp("retrain", 500, "retraining_failed", msg, called, NoInfo, NoResult)

\* retrain(), lines 148-152: the answer after train returned
RetrainSucceeded(rq) ==
    Resp("retrain", 200, "none", "none", "train",
         Info("success", FALSE, rq.training_data.data.n, EmptyMetrics), NoResult)

\* retrain(), lines 134-144: the answer given before train is entered, NoResp
\* when it is entered
retrain_validate(m, rq) ==
    CASE rq.body = "unparsable" -> RetrainFailed("get_json", "none")
      [] rq.body \in {"null", "falsy_other", "nonobject"} ->
             RetrainFailed("attribute", "none")
      [] OTHER ->
             LET td == IF rq.body = "empty_object" THEN NoTd ELSE rq.training_data IN
             IF retrain_too_few(td) = "yes"
             THEN Resp("retrain", 400, "too_few_samples", "none", "none",
                       NoInfo, NoResult)
             ELSE IF retrain_too_few(td) = "raise"
             THEN RetrainFailed("len", "none")
             ELSE IF m # "object"
             THEN RetrainFailed("attribute", "none")
             ELSE NoResp

\* model_info(), lines 168-169
model_info_unavailable(m) ==
    Resp("model_info", 500, "not_initialized", "none", "none", NoInfo, NoResult)

(***************************************************************************)
(* Spec: the server process.  app.run serves each request on a thread of   *)
(* its own and the one model object has no lock, so a handler is a         *)
(* sequence of steps, one for each read and each assignment of the         *)
(* object; what a handler does before its first access of the object       *)
(* belongs to the step of that access.  threads is the bag of the requests *)
(* in flight: the position, the request, and what the handler has read.    *)
(* req and resp are the request answered by a step and its answer; a step  *)
(* that answers nothing leaves them empty.                                  *)
(***************************************************************************)
Thread(at, rq, info, label) == [pc |-> at, rq |-> rq, info |-> info, label |-> label]

InFlight == BagToSet(threads)

\* a thread starts, takes a step, ends
Fork(r) ==
    /\ BagCardinality(threads) < MaxThreads
    /\ threads' = threads (+) SetToBag({r})
Move(r, r2) == threads' = (threads (-) SetToBag({r})) (+) SetToBag({r2})
End(r) == threads' = threads (-) SetToBag({r})

Out(rq, r) == req' = rq /\ resp' = r
Silent == req' = NoReq /\ resp' = NoResp

ThreadData(r) == r.rq.training_data.data

\* what a read of self.model finds: the estimator, or, while a fit() call of
\* another thread is rebuilding it in place, its trees half built, still
\* the ones it had, or already the new ones
EstimatorViews ==
    {estimator} \cup
    UNION {{Torn, Fitted(ThreadData(r))} : r \in {x \in InFlight : x.pc = "fitting"}}

ProcessIdle ==
    UNCHANGED <<model, pc, startup, file, loaded, gen_args, gen_data, shuffle>>
ObjectIdle == UNCHANGED <<file, loaded, gen_args, gen_data, shuffle, threads>>
ObjectState == <<estimator, is_trained, training_samples, validation_metrics>>

Init ==
    /\ model = "none"
    /\ estimator = NewModel.estimator
    /\ is_trained = NewModel.is_trained
    /\ training_samples = NewModel.training_samples
    /\ validation_metrics = NewModel.validation_metrics
    /\ file = Absent
    /\ pc = "import"
    /\ startup = "none"
    /\ train_called = FALSE
    /\ loaded = FALSE
    /\ traffic = FALSE
    /\ req = NoReq
    /\ resp = NoResp
    /\ gen_args = NoGen
    /\ gen_data = NoList
    /\ shuffle = NoShuffle
    /\ threads = EmptyBag

\* server.py lines 29-34: model = IsolationForestModel(), or None when the
\* constructor raises
ImportModule ==
    /\ pc = "import"
    /\ \/ model' = "object"
       \/ model' = "none"
    /\ pc' = "main"
    /\ UNCHANGED <<estimator, is_trained, training_samples, validation_metrics,
                   startup, train_called, traffic, req, resp>>
    /\ ObjectIdle

\* a startup block whose train call assigns nothing
startup_untrained(self, ds) == Outcome(self, "none", NoResult)

\* the startup block's train call, line 183
startup_train(self, ds) == train(self, ds)

\* server.py lines 179-189: if model: generate the data and train; an
\* exception of the import or of the generator (lines 180-182, the object
\* untouched) or of train (line 183, the object as train left it) is only
\* logged; then app.run.  No request is served before app.run, so the train
\* call runs alone
Main ==
    /\ pc = "main"
    /\ \/ /\ model = "object"
          /\ \E ds \in StartupCalls :
                 LET o == startup_train(Self, ds) IN
                 /\ SetSelf(o.self)
                 /\ startup' = IF o.raised = "none" THEN "trained" ELSE "failed"
          /\ train_called' = TRUE
       \/ /\ model = "object"
          /\ startup' = "failed"
          /\ UNCHANGED <<estimator, is_trained, training_samples,
                         validation_metrics, train_called>>
       \/ /\ model # "object"
          /\ startup' = "no_model"
          /\ UNCHANGED <<estimator, is_trained, training_samples,
                         validation_metrics, train_called>>
    /\ pc' = "serving"
    /\ UNCHANGED <<model, traffic, req, resp>>
    /\ ObjectIdle

\* health_check(), line 44: the status entry; without a model the other
\* entries read nothing and the answer is complete
HealthStatus ==
    /\ pc = "serving"
    /\ IF model # "object"
       THEN /\ Out(HealthRequest, health_check(model, Self, Self, Self))
            /\ UNCHANGED threads
       ELSE /\ Fork(Thread("h_trained", HealthRequest,
                           Info(health_status(model, Self), FALSE, 0, EmptyMetrics),
                           Unfitted))
            /\ Silent
    /\ traffic' = TRUE
    /\ UNCHANGED <<ObjectState, train_called>>
    /\ ProcessIdle

\* health_check(), line 45: the model_trained entry
HealthTrained ==
    /\ \E r \in InFlight :
         /\ r.pc = "h_trained"
         /\ Move(r, [r EXCEPT !.pc = "h_samples",
                              !.info.is_trained = health_trained(model, Self)])
    /\ Silent
    /\ UNCHANGED <<ObjectState, train_called, traffic>>
    /\ ProcessIdle

\* health_check(), lines 47-48: the training_samples entry, and the answer
HealthSamples ==
    /\ \E r \in InFlight :
         /\ r.pc = "h_samples"
         /\ End(r)
         /\ Out(r.rq, Resp("health", 200, "none", "none", "none",
                           [r.info EXCEPT !.training_samples =
                                              health_samples(model, Self)],
                           NoResult))
    /\ UNCHANGED <<ObjectState, train_called, traffic>>
    /\ ProcessIdle

\* predict() of server.py, lines 72-101: the body and the fields are
\* validated, then model.is_trained is read
PredictCheck ==
    /\ pc = "serving"
    /\ \E rq \in PredictRequests :
         LET r == predict_validate(model, Self, rq) IN
         IF r # NoResp
         THEN /\ Out(rq, r)
              /\ UNCHANGED threads
         ELSE /\ Fork(Thread("p_guard", rq, NoInfo, Unfitted))
              /\ Silent
    /\ traffic' = TRUE
    /\ UNCHANGED <<ObjectState, train_called>>
    /\ ProcessIdle

\* model.predict, lines 145-146: self.is_trained is read again
PredictGuard ==
    /\ \E r \in InFlight :
         /\ r.pc = "p_guard"
         /\ IF predict_guard(Self)
            THEN /\ End(r)
                 /\ Out(r.rq, PredictFailed("not_trained"))
            ELSE /\ Move(r, [r EXCEPT !.pc = "p_label"])
                 /\ Silent
    /\ UNCHANGED <<ObjectState, train_called, traffic>>
    /\ ProcessIdle

\* model.predict, lines 150-153: self.model.predict(X)
PredictLabel ==
    /\ \E r \in InFlight, e \in EstimatorViews :
         /\ r.pc = "p_label"
         /\ IF estimator_raises(e, r.rq.voltage, r.rq.temperature, r.rq.power_output)
            THEN /\ End(r)
                 /\ Out(r.rq, PredictFailed("predict"))
            ELSE /\ Move(r, [r EXCEPT !.pc = "p_score", !.label = e])
                 /\ Silent
    /\ UNCHANGED <<ObjectState, train_called, traffic>>
    /\ ProcessIdle

\* model.predict, lines 157-174: self.model.score_samples(X), the result;
\* server.py line 108: the answer
PredictScore ==
    /\ \E r \in InFlight, e \in EstimatorViews :
         /\ r.pc = "p_score"
         /\ End(r)
         /\ IF estimator_raises(e, r.rq.voltage, r.rq.temperature, r.rq.power_output)
            THEN Out(r.rq, PredictFailed("predict"))
            ELSE Out(r.rq, Resp("predict", 200, "none", "none", "predict", NoInfo,
                                predict_result(r.label, e, r.rq.voltage,
                                               r.rq.temperature, r.rq.power_output)))
    /\ UNCHANGED <<ObjectState, train_called, traffic>>
    /\ ProcessIdle

\* retrain(), lines 134-144: answered before train is entered
RetrainRejected ==
    /\ pc = "serving"
    /\ \E rq \in RetrainRequests :
         /\ retrain_validate(model, rq) # NoResp
         /\ Out(rq, retrain_validate(model, rq))
    /\ traffic' = TRUE
    /\ UNCHANGED <<ObjectState, train_called, threads>>
    /\ ProcessIdle

\* retrain(), line 144: model.train(training_data) is entered
RetrainCall ==
    /\ pc = "serving"
    /\ \E rq \in RetrainRequests :
         /\ retrain_validate(model, rq) = NoResp
         /\ Fork(Thread("called", rq, NoInfo, Unfitted))
    /\ Silent
    /\ traffic' = TRUE
    /\ train_called' = TRUE
    /\ UNCHANGED ObjectState
    /\ ProcessIdle

\* train, lines 72-78: X is built, self.training_samples is assigned
TrainSamples ==
    /\ \E r \in InFlight :
         /\ r.pc = "called"
         /\ IF ThreadData(r).defect = "build"
            THEN /\ End(r)
                 /\ Out(r.rq, RetrainFailed("build", "train"))
                 /\ UNCHANGED ObjectState
            ELSE /\ SetSelf(train_samples(Self, ThreadData(r)))
                 /\ Move(r, [r EXCEPT !.pc = "samples"])
                 /\ Silent
    /\ UNCHANGED <<train_called, traffic>>
    /\ ProcessIdle

\* train, lines 82-85: the split, and fit() starts on the shared estimator
TrainFitBegin ==
    /\ \E r \in InFlight :
         /\ r.pc = "samples"
         /\ IF TrainRows(ThreadData(r).n) = 0
            THEN /\ End(r)
                 /\ Out(r.rq, RetrainFailed("split", "train"))
            ELSE IF ThreadData(r).defect = "fit" \/ estimator.kind = "foreign"
            THEN /\ End(r)
                 /\ Out(r.rq, RetrainFailed("fit", "train"))
            ELSE /\ Move(r, [r EXCEPT !.pc = "fitting"])
                 /\ Silent
    /\ UNCHANGED <<ObjectState, train_called, traffic>>
    /\ ProcessIdle

\* train, line 85: fit() returns
TrainFitEnd ==
    /\ \E r \in InFlight :
         /\ r.pc = "fitting"
         /\ SetSelf(train_fit_estimator(Self, ThreadData(r)))
         /\ Move(r, [r EXCEPT !.pc = "fit"])
    /\ Silent
    /\ UNCHANGED <<train_called, traffic>>
    /\ ProcessIdle

\* train, line 86: self.is_trained = True
TrainFlag ==
    /\ \E r \in InFlight :
         /\ r.pc = "fit"
         /\ SetSelf(train_fit_flag(Self))
         /\ Move(r, [r EXCEPT !.pc = "trained"])
    /\ Silent
    /\ UNCHANGED <<train_called, traffic>>
    /\ ProcessIdle

\* train, lines 89-107: self.model.predict(X_test) and the scores
TrainValidate ==
    /\ \E r \in InFlight, e \in EstimatorViews :
         /\ r.pc = "trained"
         /\ IF ThreadData(r).defect = "validate" \/ e.kind # "fitted"
            THEN /\ End(r)
                 /\ Out(r.rq, RetrainFailed("validate", "train"))
            ELSE /\ Move(r, [r EXCEPT !.pc = "validated"])
                 /\ Silent
    /\ UNCHANGED <<ObjectState, train_called, traffic>>
    /\ ProcessIdle

\* train, lines 109-123: self.validation_metrics is assigned and train
\* returns; retrain(), lines 146-152: the answer
TrainMetrics ==
    /\ \E r \in InFlight :
         /\ r.pc = "validated"
         /\ SetSelf(train_metrics(Self, ThreadData(r)))
         /\ End(r)
         /\ Out(r.rq, RetrainSucceeded(r.rq))
    /\ UNCHANGED <<train_called, traffic>>
    /\ ProcessIdle

\* model_info(), lines 168-171, and get_info, line 216: is_trained is read
InfoTrained ==
    /\ pc = "serving"
    /\ IF model # "object"
       THEN /\ Out(InfoRequest, model_info_unavailable(model))
            /\ UNCHANGED threads
       ELSE /\ Fork(Thread("i_samples", InfoRequest,
                           Info("none", is_trained, 0, EmptyMetrics), Unfitted))
            /\ Silent
    /\ traffic' = TRUE
    /\ UNCHANGED <<ObjectState, train_called>>
    /\ ProcessIdle

\* get_info, line 217: training_samples is read
InfoSamples ==
    /\ \E r \in InFlight :
         /\ r.pc = "i_samples"
         /\ Move(r, [r EXCEPT !.pc = "i_metrics",
                              !.info.training_samples = training_samples])
    /\ Silent
    /\ UNCHANGED <<ObjectState, train_called, traffic>>
    /\ ProcessIdle

\* get_info, line 223: validation_metrics is read; model_info(), line 171:
\* the answer
InfoMetrics ==
    /\ \E r \in InFlight :
         /\ r.pc = "i_metrics"
         /\ End(r)
         /\ Out(r.rq, Resp("model_info", 200, "none", "none", "get_info",
                           [r.info EXCEPT !.validation_metrics = validation_metrics],
                           NoResult))
    /\ UNCHANGED <<ObjectState, train_called, traffic>>
    /\ ProcessIdle

Next ==
    \/ ImportModule
    \/ Main
    \/ HealthStatus
    \/ HealthTrained
    \/ HealthSamples
    \/ PredictCheck
    \/ PredictGuard
    \/ PredictLabel
    \/ PredictScore
    \/ RetrainRejected
    \/ RetrainCall
    \/ TrainSamples
    \/ TrainFitBegin
    \/ TrainFitEnd
    \/ TrainFlag
    \/ TrainValidate
    \/ TrainMetrics
    \/ InfoTrained
    \/ InfoSamples
    \/ InfoMetrics

Spec == Init /\ [][Next]_vars

(***************************************************************************)
(* generate_synthetic_data(num_samples, random_seed)                       *)
(*                                                                         *)
(* A reading is described by the regime whose ranges its three values were *)
(* drawn from.  The values np.random draws after np.random.seed, line 54,  *)
(* are not computed: a draw is any value of its range.                     *)
(***************************************************************************)
\* int(num_samples * 0.90), int(num_samples * 0.05), int(num_samples * 0.03):
\* the double product truncated; for 0 <= num_samples <= 2,000,000 it equals
\* the integer quotient below
IntPercent(num_samples, pct) == (num_samples * pct) \div 100

num_normal(num_samples) == IntPercent(num_samples, 90)
num_dust(num_samples) == IntPercent(num_samples, 5)
num_overheat(num_samples) == IntPercent(num_samples, 3)

\* the count that would be 2% of the samples
PercentVoltageDrop(num_samples) == IntPercent(num_samples, 2)

\* line 62
num_voltage_drop(num_samples) ==
    num_samples - num_normal(num_samples) - num_dust(num_samples)
        - num_overheat(num_samples)

\* the four append loops, lines 71-100
Appended(num_samples) ==
    LET a == num_normal(num_samples)
        b == num_dust(num_samples)
        c == num_overheat(num_samples)
        d == num_voltage_drop(num_samples)
    IN [i \in 1..(a + b + c + d) |->
           [regime |-> IF i <= a THEN "normal"
                       ELSE IF i <= a + b THEN "dust"
                       ELSE IF i <= a + b + c THEN "overheat"
                       ELSE "voltage_drop"]]

\* the reading that the generator seeded with random_seed may draw for place
\* i of the shuffle: the draw is any place of 1..i, so the reading is any of
\* those held by the places 1..i
Drawn(random_seed, i, open) == BagToSet(open)

\* the readings of a list, counted, whatever their places
Readings(seq) ==
    [r \in {seq[k] : k \in DOMAIN seq} |->
        Cardinality({k \in DOMAIN seq : seq[k] = r})]

(***************************************************************************)
(* GenSpec: the generator applied to its arguments.                        *)
(*                                                                         *)
(* While np.random.shuffle runs at place i, the places above i hold their  *)
(* final readings, in order (placed); the places 1..i hold the other       *)
(* readings (open).  Which of them sits at which of these places decides   *)
(* nothing once a draw may be any place of 1..i, so open is kept as the    *)
(* readings counted, without their places: exchanging place i with the     *)
(* drawn place j fixes the reading of place j at place i and leaves the    *)
(* rest at 1..i-1.                                                         *)
(***************************************************************************)
SampleCounts == (0..MaxGenSmall) \cup {MaxGen}

InitGen ==
    /\ model = "none"
    /\ estimator = NewModel.estimator
    /\ is_trained = NewModel.is_trained
    /\ training_samples = NewModel.training_samples
    /\ validation_metrics = NewModel.validation_metrics
    /\ file = Absent
    /\ pc = "generator"
    /\ startup = "none"
    /\ train_called = FALSE
    /\ loaded = FALSE
    /\ traffic = FALSE
    /\ req = NoReq
    /\ resp = NoResp
    /\ gen_args \in [num_samples : SampleCounts, random_seed : 0..MaxSeed]
    /\ gen_data = NoList
    /\ shuffle = NoShuffle
    /\ threads = EmptyBag

GenIdle ==
    UNCHANGED <<model, estimator, is_trained, training_samples,
                validation_metrics, file, startup, train_called, loaded,
                traffic, req, gen_args, threads>>

\* lines 54-100: the counts and the four append loops; the shuffle is about
\* to start at the last place
AppendReadings ==
    /\ pc = "generator"
    /\ LET data == Appended(gen_args.num_samples) IN
       /\ gen_data' = [open |-> Readings(data), placed |-> << >>]
       /\ shuffle' = [i |-> Len(data)]
    /\ pc' = "shuffle"
    /\ UNCHANGED resp
    /\ GenIdle

\* np.random.shuffle(data), line 103: from the last place down to the
\* second, the reading of place i is exchanged with the one of a drawn place
\* of 1..i
ShuffleStep ==
    /\ pc = "shuffle"
    /\ shuffle.i > 1
    /\ \E r \in Drawn(gen_args.random_seed, shuffle.i, gen_data.open) :
           gen_data' = [open |-> gen_data.open (-) SetToBag({r}),
                        placed |-> <<r>> \o gen_data.placed]
    /\ shuffle' = [i |-> shuffle.i - 1]
    /\ UNCHANGED <<pc, resp>>
    /\ GenIdle

\* lines 105-107: return data
ReturnData ==
    /\ pc = "shuffle"
    /\ shuffle.i <= 1
    /\ pc' = "returned"
    /\ resp' = [NoResp EXCEPT !.route = "generate"]
    /\ UNCHANGED <<gen_data, shuffle>>
    /\ GenIdle

NextGen ==
    \/ AppendReadings
    \/ ShuffleStep
    \/ ReturnData

GenSpec == InitGen /\ [][NextGen]_vars

(***************************************************************************)
(* Properties                                                              *)
(***************************************************************************)
Regimes == {"normal", "dust", "overheat", "voltage_drop"}
Count(seq, regime) == Cardinality({i \in DOMAIN seq : seq[i].regime = regime})

\* the readings of a regime in data, at the places still open and at the
\* places filled
CountData(g, regime) ==
    CopiesIn([regime |-> regime], g.open) + Count(g.placed, regime)

\* the returned list: place 1 holds the reading no draw has fixed elsewhere
ReturnedList ==
    IF gen_data.open = EmptyBag THEN gen_data.placed
    ELSE <<CHOOSE r \in BagToSet(gen_data.open) : TRUE>> \o gen_data.placed

\* C6: generate_synthetic_data(N) returns exactly N readings: floor(0.90 N)
\* normal, floor(0.05 N) dust, floor(0.03 N) overheat and the remainder
\* voltage-drop; every reading is of one of the four regimes; the shuffle,
\* at each of its places and at the return, keeps the number of readings of
\* each regime that the loops appended
C6_GeneratorPartition ==
    pc \in {"shuffle", "returned"} =>
        LET N == gen_args.num_samples
            appended == Appended(N)
            normal == CountData(gen_data, "normal")
            dust == CountData(gen_data, "dust")
            overheat == CountData(gen_data, "overheat")
            voltage_drop == CountData(gen_data, "voltage_drop")
        IN /\ BagCardinality(gen_data.open) + Len(gen_data.placed) = N
           /\ BagCardinality(gen_data.open) = shuffle.i
           /\ normal = (90 * N) \div 100
           /\ dust = (5 * N) \div 100
           /\ overheat = (3 * N) \div 100
           /\ voltage_drop = N - normal - dust - overheat
           /\ normal + dust + overheat + voltage_drop = N
           /\ \A r \in Regimes : CountData(gen_data, r) = Count(appended, r)
           /\ pc = "returned" =>
                  /\ Len(ReturnedList) = N
                  /\ \A r \in Regimes :
                         Count(ReturnedList, r) = Count(appended, r)

\* C6 witness: a call with the largest sample count has returned readings of
\* all four regimes, more voltage-drop readings than 2% of the count, the
\* overheating reading in the first place, a normal one in the last, and a
\* voltage-drop reading before the dust reading, which was appended first
C6_Witness ==
    /\ pc = "returned"
    /\ resp.route = "generate"
    /\ gen_args.num_samples = MaxGen
    /\ Count(ReturnedList, "dust") >= 1
    /\ Count(ReturnedList, "overheat") >= 1
    /\ Count(ReturnedList, "voltage_drop") > (2 * MaxGen) \div 100
    /\ Appended(MaxGen)[1].regime = "normal"
    /\ ReturnedList[1].regime = "overheat"
    /\ ReturnedList[MaxGen].regime = "normal"
    /\ \E k \in 1..MaxGen, l \in 1..MaxGen :
           /\ k < l
           /\ ReturnedList[k].regime = "voltage_drop"
           /\ ReturnedList[l].regime = "dust"

\* C1 as stated: predict before any train call fails with the "not trained"
\* error and returns no result, after every sequence of get_info, save_model,
\* load_model and predict calls
C1_PredictBeforeTrain ==
    (resp.route = "predict" /\ ~train_called) =>
        (resp.error = "not_trained" /\ resp.result = NoResult)

\* C1 amended: predict before any train call and before any successful
\* load_model call fails with the "not trained" error and returns no result
C1_PredictBeforeTrainOrLoad ==
    (resp.route = "predict" /\ ~train_called /\ ~loaded) =>
        (resp.error = "not_trained" /\ resp.result = NoResult)

\* C1 witness: predict has failed on an instance never trained, with a model
\* file on disk that was not loaded
C1_Witness ==
    /\ resp.route = "predict"
    /\ resp.error = "not_trained"
    /\ ~train_called
    /\ ~loaded
    /\ file # Absent

\* thread r takes the step of the transition, to position at
Moved(r, at) ==
    \E r2 \in BagToSet(threads') :
        /\ r2.pc = at
        /\ r2.rq = r.rq
        /\ threads' = (threads (-) SetToBag({r})) (+) SetToBag({r2})

\* thread r takes the step of the transition and answers
Ended(r) == threads' = threads (-) SetToBag({r})

\* thread r takes the step of the transition
Stepped(r) == Ended(r) \/ \E at \in {x.pc : x \in BagToSet(threads')} \ {r.pc} : Moved(r, at)

\* a /retrain request whose training data makes a step of train raise: it is
\* answered 500
Fails(rq) == rq.route = "retrain" /\ rq.training_data.data.defect # "none"

\* C2 as stated: a /retrain answered 500 leaves the estimator, is_trained,
\* training_samples and validation_metrics as they were before the request:
\* no step of such a request changes any of them
C2_FailedRetrainKeepsState ==
    [][\A r \in InFlight : (Fails(r.rq) /\ Stepped(r)) => UNCHANGED ObjectState]_vars

\* the number of training entries a /retrain request carries
Entries(rq) ==
    IF rq.body = "object" /\ rq.training_data.kind = "list"
    THEN rq.training_data.data.n
    ELSE 0

\* C3 as stated: a /retrain with fewer than 100 training entries answers 400
\* whatever the body, without calling train and without changing the model
C3_TooFewIs400 ==
    [][(resp'.route = "retrain" /\ Entries(req') < MinSamples) =>
           (resp'.status = 400 /\ resp'.called = "none" /\ UNCHANGED ObjectState)]_vars

\* a /predict body that is a JSON object lacking one of the three fields
ObjectMissingField(rq) ==
    \/ rq.body = "empty_object"
    \/ rq.body = "object" /\ predict_missing(rq.voltage, rq.temperature, rq.power_output)

\* C4 as stated: /predict with a JSON body lacking one of the three fields
\* answers 400 with the missing-fields message in every model state, and
\* model.predict is not reached
C4_MissingFieldIs400 ==
    (resp.route = "predict" /\ traffic /\ ObjectMissingField(req)) =>
        (resp.status = 400 /\ resp.error = "missing_fields" /\ resp.called = "none")

\* a /predict body with the three fields present
AllFieldsPresent(rq) ==
    rq.body = "object" /\ ~predict_missing(rq.voltage, rq.temperature, rq.power_output)

\* C5 as stated: /predict with the three fields present answers 500 exactly
\* when the model is absent or untrained or model.predict raises, and 200
\* with the model's result otherwise; numbers outside the expected ranges
\* never decide the response
C5_PredictStatus ==
    (resp.route = "predict" /\ traffic /\ AllFieldsPresent(req)) =>
        /\ resp.status = 500 <=>
               \/ model # "object"
               \/ ~is_trained
               \/ resp.called = "predict" /\ resp.error = "prediction_failed"
        /\ resp.status # 500 =>
               /\ resp.status = 200
               /\ resp.called = "predict"
               /\ resp.result =
                      predict_result(resp.result.labelled_by, resp.result.scored_by,
                                     req.voltage, req.temperature, req.power_output)
               /\ resp.result.labelled_by.kind = "fitted"
               /\ resp.result.scored_by.kind = "fitted"
        /\ {req.voltage, req.temperature, req.power_output} \subseteq Numbers =>
               resp.message # "range_check"

\* C8 as stated: /health answers 200 in every state; model_trained is the
\* model's trained flag (false without a model), status is 'ok' exactly when
\* model_trained, training_samples is the model's (0 without a model), and
\* the request changes no model state
C8_HealthNeverErrors ==
    [][resp'.route = "health" =>
           /\ resp'.status = 200
           /\ resp'.info.is_trained = (model' = "object" /\ is_trained')
           /\ resp'.info.status \in {"ok", "error"}
           /\ resp'.info.status = "ok" <=> resp'.info.is_trained
           /\ resp'.info.training_samples =
                  (IF model' = "object" THEN training_samples' ELSE 0)
           /\ UNCHANGED <<model, ObjectState>>]_vars

\* a /predict request with three numeric fields
ValidPredict(rq) ==
    rq.route = "predict" /\ rq.body = "object"
        /\ {rq.voltage, rq.temperature, rq.power_output} \subseteq Numbers

\* C9 as stated: no handler runs before the startup training has finished,
\* the first request sees a model trained on 10,000 samples, and /predict
\* with valid fields never answers the 'Model not trained' 500
C9_TrainedBeforeTraffic ==
    /\ traffic => pc = "serving"
    /\ (pc = "serving" /\ ~traffic) =>
           (model = "object" /\ is_trained /\ training_samples = StartupSamples)
    /\ (traffic /\ ValidPredict(req)) => resp.error # "model_not_trained"

\* C9 amended: no handler runs before the startup block has finished.  When
\* the startup train call returned, traffic starts on a model trained on
\* 10,000 samples, the flag stays set, every /health and /model/info answer
\* says trained (a sample count other than 10000 only once a /retrain has
\* assigned its own), and /predict with valid fields never answers the
\* 'Model not trained' 500.  When the constructor raised there is no model;
\* when the startup block raised, traffic starts on the object as the block
\* left it: untrained when it raised before line 86 of train, trained on
\* 10,000 samples without validation metrics when it raised after
C9_StartupBeforeTraffic ==
    /\ traffic => (pc = "serving" /\ startup # "none")
    /\ (pc = "serving") = (startup # "none")
    /\ pc # "serving" => threads = EmptyBag
    /\ (pc = "serving" /\ ~traffic /\ startup = "trained") =>
           /\ estimator = Fitted(StartupData)
           /\ training_samples = StartupSamples
           /\ validation_metrics = Metrics(StartupData)
    /\ startup = "trained" => (model = "object" /\ is_trained)
    /\ (startup = "trained" /\ resp.route \in {"health", "model_info"}) =>
           /\ resp.status = 200
           /\ resp.info.is_trained
           /\ resp.route = "health" => resp.info.status = "ok"
           /\ resp.info.training_samples # StartupSamples =>
                  training_samples # StartupSamples
    /\ (traffic /\ ValidPredict(req) /\ startup = "trained") =>
           resp.error # "model_not_trained"
    /\ startup = "no_model" => model = "none"
    /\ (pc = "serving" /\ ~traffic /\ startup = "failed") =>
           /\ model = "object"
           /\ validation_metrics = EmptyMetrics
           /\ training_samples \in {0, StartupSamples}
           /\ is_trained = (estimator.kind = "fitted")
           /\ is_trained => training_samples = StartupSamples
           /\ ~is_trained => estimator = Unfitted

\* C9 witness: after a successful startup training a valid /predict has been
\* answered with a result of the estimator fitted at startup
C9_Witness ==
    /\ startup = "trained"
    /\ ValidPredict(req)
    /\ resp.status = 200
    /\ resp.result.labelled_by = Fitted(StartupData)
    /\ resp.result.scored_by = Fitted(StartupData)

\* C10: is_trained never goes from true to false; only train and load_model
\* change it; predict, get_info and save_model leave is_trained,
\* training_samples and validation_metrics unchanged
C10_TrainedFlagMonotone ==
    [][/\ is_trained => is_trained'
       /\ is_trained' # is_trained => resp'.route \in {"train", "load_model"}
       /\ resp'.route \in {"predict", "get_info", "save_model"} =>
              UNCHANGED <<is_trained, training_samples, validation_metrics>>]_vars

\* C10 witness: a train call has failed at the fit on an instance that was
\* trained before, and the instance is still trained
C10_Witness ==
    /\ resp.route = "train"
    /\ resp.error = "fit"
    /\ is_trained

\* C11 as stated: whenever is_trained is true, training_samples is >= 1 and
\* is the number of readings of the train call that fitted the estimator in
\* use, and validation_metrics is non-empty and was computed by that same
\* call; whenever is_trained is false, training_samples is 0 and
\* validation_metrics is empty
C11_ConsistentState ==
    /\ is_trained =>
           /\ training_samples >= 1
           /\ estimator.kind = "fitted"
           /\ training_samples = estimator.data.n
           /\ validation_metrics.set
           /\ validation_metrics.data = estimator.data
    /\ ~is_trained =>
           /\ training_samples = 0
           /\ validation_metrics = EmptyMetrics

\* C12: /retrain mutates the shared model in place with no lock, in the
\* order training_samples, the fit, is_trained, validation_metrics: each of
\* these steps assigns its one attribute, at once visible to the other
\* threads, and leaves the other attributes as the threads before left
\* them; /health, /predict and /model/info change nothing and answer from
\* what they read step by step, the last read being of the object as it is
\* when they answer
C12_RetrainStepsVisible ==
    [][/\ \A r \in InFlight :
            /\ (r.pc = "called" /\ Moved(r, "samples")) =>
                   /\ training_samples' = ThreadData(r).n
                   /\ UNCHANGED <<estimator, is_trained, validation_metrics>>
            /\ (r.pc = "samples" /\ Moved(r, "fitting")) => UNCHANGED ObjectState
            /\ (r.pc = "fitting" /\ Moved(r, "fit")) =>
                   /\ estimator' = Fitted(ThreadData(r))
                   /\ UNCHANGED <<training_samples, is_trained, validation_metrics>>
            /\ (r.pc = "fit" /\ Moved(r, "trained")) =>
                   /\ is_trained'
                   /\ UNCHANGED <<training_samples, estimator, validation_metrics>>
            /\ (r.pc = "trained" /\ Moved(r, "validated")) => UNCHANGED ObjectState
            /\ (r.pc = "validated" /\ Ended(r)) =>
                   /\ validation_metrics' = Metrics(ThreadData(r))
                   /\ UNCHANGED <<training_samples, estimator, is_trained>>
                   /\ resp'.status = 200
            /\ (r.rq.route # "retrain" /\ Stepped(r)) => UNCHANGED ObjectState
       /\ (resp'.route = "health" /\ model = "object") =>
              resp'.info.training_samples = training_samples
       /\ resp'.route = "model_info" /\ resp'.status = 200 =>
              resp'.info.validation_metrics = validation_metrics
       /\ resp'.route = "predict" /\ resp'.status = 200 =>
              resp'.result.scored_by \in EstimatorViews]_vars

\* C12 witness: /model/info has answered the training_samples of a /retrain
\* in flight together with the validation_metrics of the startup training,
\* a state no completed train call produced
C12_Witness ==
    /\ resp.route = "model_info"
    /\ resp.status = 200
    /\ resp.info.is_trained
    /\ resp.info.training_samples = MinSamples
    /\ resp.info.validation_metrics = Metrics(StartupData)
    /\ estimator = Fitted(StartupData)
    /\ \E r \in InFlight : r.pc = "samples" /\ ThreadData(r) = Dataset(MinSamples, "none")
====
